---- MODULE Spec2Model ----
(***************************************************************************)
(* Schema-driven bit-packing record codec (src/main.cpp).                  *)
(*                                                                         *)
(* A uint64_t is the sequence of its 8 bytes in memory order, which is      *)
(* little endian on the hosts the program is built for; the record buffer  *)
(* is a sequence of bytes 0..255 (byte b of the C++ vector is element b+1).*)
(***************************************************************************)
EXTENDS Integers, Sequences, FiniteSets, TLC

VARIABLES pc, schemaJson, schema, rec, file, rec2, hist, lastOp

vars == <<pc, schemaJson, schema, rec, file, rec2, hist, lastOp>>

(* ------------------------------ bounds --------------------------------- *)

\* longest declaration list handed to loadSchema in SpecCompile
MaxFields == 2
\* number of successful integer writes made to the first record
MaxSets == 2

(* --------------------------- 64-bit carrier ---------------------------- *)

Bits == 0..63

Pow2(n) == 2 ^ n

\* bit i of the uint64_t x
BitOf(x, i) == (x[(i \div 8) + 1] \div Pow2(i % 8)) % 2

\* the uint64_t whose bit i is bit[i]
Pack(bit) ==
  [k \in 1..8 |->
     bit[8 * k - 8] + 2 * bit[8 * k - 7] + 4 * bit[8 * k - 6] + 8 * bit[8 * k - 5]
     + 16 * bit[8 * k - 4] + 32 * bit[8 * k - 3] + 64 * bit[8 * k - 2]
     + 128 * bit[8 * k - 1]]

Zero64 == <<0, 0, 0, 0, 0, 0, 0, 0>>

AllOnes == <<255, 255, 255, 255, 255, 255, 255, 255>>

\* x << s on uint64_t, 0 <= s < 64: bits shifted past bit 63 are lost
Shl(x, s) == Pack([i \in Bits |-> IF i >= s THEN BitOf(x, i - s) ELSE 0])

\* x >> s on uint64_t, 0 <= s < 64
Shr(x, s) == Pack([i \in Bits |-> IF i + s <= 63 THEN BitOf(x, i + s) ELSE 0])

\* a & b on uint8_t
And8(a, b) ==
  LET bit(x, j) == (x \div Pow2(j)) % 2
      t(j) == bit(a, j) * bit(b, j) * Pow2(j)
  IN  t(0) + t(1) + t(2) + t(3) + t(4) + t(5) + t(6) + t(7)

And64(x, y) == [k \in 1..8 |-> And8(x[k], y[k])]

\* (x >> 8k) & 0xFF, 0 <= k <= 7
ByteOf(x, k) == x[k + 1]

\* uint64_t chunk = 0; memcpy(&chunk, bytes, Len(bytes)) for at most 8 bytes
FromBytes(bytes) == [k \in 1..8 |-> IF k <= Len(bytes) THEN bytes[k] ELSE 0]

\* the 8 bytes of a uint64_t in memory order
ToBytes(x) == x

\* mask = (bitWidth == 64 ? ~0ull : ((1ull << bitWidth) - 1))
Mask(bitWidth) ==
  IF bitWidth = 64 THEN AllOnes
  ELSE Pack([i \in Bits |-> IF i < bitWidth THEN 1 ELSE 0])

\* memcpy(buf.data() + at, bytes, Len(bytes))
StoreBytes(buf, at, bytes) ==
  [k \in 1..Len(buf) |->
     IF k - 1 >= at /\ k - 1 < at + Len(bytes) THEN bytes[k - at] ELSE buf[k]]

\* the bytes buf[at .. at+n-1]
LoadBytes(buf, at, n) == [k \in 1..n |-> buf[at + k]]

(* --------------------------- bit primitives ---------------------------- *)

Byte0(bitOffset) == bitOffset \div 8

Byte1(bitOffset, bitWidth) == (bitOffset + bitWidth - 1) \div 8

\* byte1 - byte0 + 1, the length given to memcpy
SpanBytes(bitOffset, bitWidth) ==
  Byte1(bitOffset, bitWidth) - Byte0(bitOffset) + 1

\* memcpy moves more bytes than the 8-byte chunk holds, and the clear loop
\* shifts a uint64_t by 64: undefined behaviour
SpanOverflows(bitOffset, bitWidth) == SpanBytes(bitOffset, bitWidth) > 8

\* readBits when it returns: the chunk keeps the first 8 bytes of the span
readBits(buf, bitOffset, bitWidth) ==
  LET byte0 == Byte0(bitOffset)
      n     == SpanBytes(bitOffset, bitWidth)
      chunk == FromBytes(LoadBytes(buf, byte0, IF n > 8 THEN 8 ELSE n))
  IN  And64(Shr(chunk, bitOffset % 8), Mask(bitWidth))

\* values an out-of-object read or an over-wide shift may produce; any byte
\* is possible, these stand for them
IndeterminateBytes == {0, 208, 255}

UBChoices == [shr64 : IndeterminateBytes, past : IndeterminateBytes]

NoUB == [shr64 |-> 0, past |-> 0]

\* writeBits when it returns.  ub.shr64 is what ((mask << shift) >> 64) & 0xFF
\* yields and ub.past the byte memcpy reads past the end of chunk; both are
\* used only when the span has 9 bytes.
writeBits(buf, bitOffset, bitWidth, value, ub) ==
  LET byte0 == Byte0(bitOffset)
      byte1 == Byte1(bitOffset, bitWidth)
      shift == bitOffset % 8
      mask  == Mask(bitWidth)
      clearMask(b) ==
        255 - (IF (b - byte0) * 8 < 64
               THEN ByteOf(Shl(mask, shift), b - byte0)
               ELSE ub.shr64)
      cleared ==
        [k \in 1..Len(buf) |->
           IF k - 1 >= byte0 /\ k - 1 <= byte1
           THEN And8(buf[k], clearMask(k - 1))
           ELSE buf[k]]
      chunk == Shl(And64(value, mask), shift)
      src   == [k \in 1..(byte1 - byte0 + 1) |->
                  IF k <= 8 THEN ByteOf(chunk, k - 1) ELSE ub.past]
  IN  StoreBytes(cleared, byte0, src)

(* --------------------------- schema compiler --------------------------- *)

\* a default-constructed BinarySchema
FreshSchema ==
  [fields |-> << >>, name2idx |-> [n \in {} |-> 0], totalSize |-> 0, totalBits |-> 0]

\* item["bitLength"].get<uint8_t>(): the JSON integer is cast to uint8_t
\* without a range check
AsUint8(n) == n % 256

\* makeFieldDesc with the byte size rounded down instead of up
makeFieldDesc_sizeRoundedDown(name, bitLength, cursorBits) ==
  [name      |-> name,
   type      |-> "BITFIELD",
   bitLength |-> bitLength,
   bitOffset |-> cursorBits,
   size      |-> bitLength \div 8,
   offset    |-> cursorBits \div 8]

\* the FieldDesc built for one accepted item at the current cursor
makeFieldDesc(name, bitLength, cursorBits) ==
  [name      |-> name,
   type      |-> "BITFIELD",
   bitLength |-> bitLength,
   bitOffset |-> cursorBits,
   size      |-> (bitLength + 7) \div 8,
   offset    |-> cursorBits \div 8]

\* the loop over the items: the fields pushed so far and the cursor, or the
\* throw at the first rejected item (fields pushed before it stay pushed)
RECURSIVE loadLoop(_, _, _, _)
loadLoop(items, k, cursorBits, fields) ==
  IF k > Len(items)
  THEN [err |-> "", name |-> "", fields |-> fields, cursorBits |-> cursorBits]
  ELSE LET bitLength == AsUint8(items[k].bitLength)
       IN  IF bitLength > 0 /\ bitLength <= 64
           THEN loadLoop(items, k + 1, cursorBits + bitLength,
                         Append(fields,
                                makeFieldDesc(items[k].name, bitLength, cursorBits)))
           ELSE [err |-> "InvalidBitWidth", name |-> items[k].name,
                 fields |-> fields, cursorBits |-> cursorBits]

\* name2idx[fields[i].name] = i for i in order: a later field of the same
\* name replaces the earlier entry (indices are positions 1..n here)
RECURSIVE buildIndex(_, _, _)
buildIndex(fields, i, m) ==
  IF i > Len(fields) THEN m
  ELSE buildIndex(fields, i + 1, (fields[i].name :> i) @@ m)

\* loadSchema on the schema object self: the error thrown, if any, and the
\* object afterwards
loadSchema(self, items) ==
  LET r == loadLoop(items, 1, 0, self.fields)
  IN  IF r.err # ""
      THEN [err |-> r.err, name |-> r.name,
            schema |-> [self EXCEPT !.fields = r.fields]]
      ELSE [err |-> "", name |-> "",
            schema |-> [fields    |-> r.fields,
                        name2idx  |-> buildIndex(r.fields, 1, self.name2idx),
                        totalSize |-> (r.cursorBits + 7) \div 8,
                        totalBits |-> r.cursorBits]]

(* ----------------------------- record codec ---------------------------- *)

\* buf(s.totalSize, 0)
newBuffer(s) == [k \in 1..s.totalSize |-> 0]

Known(s, name) == name \in DOMAIN s.name2idx

Field(s, name) == s.fields[s.name2idx[name]]

NoBytes == << >>

\* static_cast<int64_t>(int32_t) stored in a uint64_t: bit 31 is copied up
SignExtend32(x) == Pack([i \in Bits |-> IF i < 32 THEN BitOf(x, i) ELSE BitOf(x, 31)])

\* whether the integer accessors reach readBits with a 9-byte span
readOverflows(s, name) ==
  /\ Known(s, name)
  /\ Field(s, name).type = "BITFIELD"
  /\ SpanOverflows(Field(s, name).bitOffset, Field(s, name).bitLength)

\* whether setValue(name, uint64_t) reaches writeBits with a 9-byte span
writeOverflows(s, name) == readOverflows(s, name)

\* getInteger(name)
getInteger(s, buf, name) ==
  IF ~Known(s, name) THEN [err |-> "FieldNotFound", val |-> Zero64]
  ELSE LET fd == Field(s, name)
       IN  CASE fd.type = "BITFIELD" ->
                  [err |-> "", val |-> readBits(buf, fd.bitOffset, fd.bitLength)]
             [] fd.type = "UINT8" ->
                  [err |-> "", val |-> FromBytes(LoadBytes(buf, fd.offset, 1))]
             [] fd.type = "UINT16" ->
                  [err |-> "", val |-> FromBytes(LoadBytes(buf, fd.offset, 2))]
             [] fd.type = "UINT32" ->
                  [err |-> "", val |-> FromBytes(LoadBytes(buf, fd.offset, 4))]
             [] fd.type = "INT32" ->
                  [err |-> "",
                   val |-> SignExtend32(FromBytes(LoadBytes(buf, fd.offset, 4)))]
             [] OTHER -> [err |-> "TypeMismatch", val |-> Zero64]

\* getValue<uint64_t>(name): no check of the field's type
getValueInt(s, buf, name) ==
  IF ~Known(s, name) THEN [err |-> "FieldNotFound", val |-> Zero64]
  ELSE LET fd == Field(s, name)
       IN  IF fd.type = "BITFIELD"
           THEN [err |-> "", val |-> readBits(buf, fd.bitOffset, fd.bitLength)]
           ELSE [err |-> "", val |-> FromBytes(LoadBytes(buf, fd.offset, fd.size))]

\* getValue<std::vector<uint8_t>>(name): no check of the field's type
getValueBlob(s, buf, name) ==
  IF ~Known(s, name) THEN [err |-> "FieldNotFound", bytes |-> NoBytes]
  ELSE LET fd == Field(s, name)
       IN  [err |-> "", bytes |-> LoadBytes(buf, fd.offset, fd.size)]

\* setValue(name, uint64_t value): the error thrown, if any, and the buffer
\* afterwards
setValueInt(s, buf, name, value, ub) ==
  IF ~Known(s, name) THEN [err |-> "FieldNotFound", buf |-> buf]
  ELSE LET fd == Field(s, name)
           narrow(n) == LoadBytes(ToBytes(value), 0, n)
       IN  CASE fd.type = "BITFIELD" ->
                  [err |-> "",
                   buf |-> writeBits(buf, fd.bitOffset, fd.bitLength, value, ub)]
             [] fd.type = "UINT8" ->
                  [err |-> "", buf |-> StoreBytes(buf, fd.offset, narrow(1))]
             [] fd.type = "UINT16" ->
                  [err |-> "", buf |-> StoreBytes(buf, fd.offset, narrow(2))]
             [] fd.type \in {"UINT32", "INT32"} ->
                  [err |-> "", buf |-> StoreBytes(buf, fd.offset, narrow(4))]
             [] OTHER -> [err |-> "TypeMismatch", buf |-> buf]

\* setValueBlob with the copy made before the field's type is checked
setValueBlob_copyBeforeCheck(s, buf, name, data) ==
  IF ~Known(s, name) THEN [err |-> "FieldNotFound", buf |-> buf]
  ELSE LET fd  == Field(s, name)
           len == IF Len(data) < fd.size THEN Len(data) ELSE fd.size
           out == StoreBytes(buf, fd.offset,
                    [k \in 1..fd.size |-> IF k <= len THEN data[k] ELSE 0])
       IN  [err |-> IF fd.type # "BLOB" THEN "TypeMismatch" ELSE "", buf |-> out]

\* setValue(name, const std::vector<uint8_t>& data)
setValueBlob(s, buf, name, data) ==
  IF ~Known(s, name) THEN [err |-> "FieldNotFound", buf |-> buf]
  ELSE LET fd  == Field(s, name)
           len == IF Len(data) < fd.size THEN Len(data) ELSE fd.size
       IN  IF fd.type # "BLOB"
           THEN [err |-> "TypeMismatch", buf |-> buf]
           ELSE [err |-> "",
                 buf |-> StoreBytes(buf, fd.offset,
                           [k \in 1..fd.size |-> IF k <= len THEN data[k] ELSE 0])]

\* is.read(buf.data(), buf.size()) from a stream holding `input`: the bytes
\* available are stored, the rest of the buffer is left as it was; a short
\* stream raises the stream's failbit and nothing else
read(buf, input) ==
  LET n == IF Len(input) < Len(buf) THEN Len(input) ELSE Len(buf)
  IN  [buf     |-> StoreBytes(buf, 0, SubSeq(input, 1, n)),
       failbit |-> Len(input) < Len(buf)]

\* os.write(buf.data(), buf.size())
write(buf) == buf

(* ------------------------------- inputs -------------------------------- *)

Decl(n, w) == [name |-> n, bitLength |-> w]

Names == {"a", "b"}

\* declared widths: valid ones, 0, 65, and integers above 255
BitLengths == {0, 3, 5, 8, 64, 65, 256, 257}

\* every declaration list of 1..MaxFields items
DeclLists ==
  UNION {[1..n -> {Decl(nm, w) : nm \in Names, w \in BitLengths}] : n \in 1..MaxFields}

\* the declaration lists records are built for
RecordDecls ==
  { <<Decl("a", 3), Decl("b", 5)>>,
    <<Decl("a", 5), Decl("b", 8)>>,
    <<Decl("a", 8), Decl("b", 56)>>,
    <<Decl("a", 3), Decl("b", 64)>>,
    <<Decl("a", 64)>>,
    <<Decl("a", 3), Decl("a", 5)>>,
    <<Decl("a", 3), Decl("b", 0)>> }

\* names given to get/set: the declared ones and one no schema declares
LookupNames == Names \cup {"zz"}

Values == {FromBytes(<<5>>), AllOnes}

Blobs == {<< >>, <<170, 187>>}

(* ---------------------------- state machine ---------------------------- *)

Op(op, name, err) ==
  [op |-> op, name |-> name, err |-> err, val |-> Zero64, bytes |-> NoBytes,
   failbit |-> FALSE]

InitWith(lists) ==
  /\ pc = "start"
  /\ schemaJson \in lists
  /\ schema = FreshSchema
  /\ rec = NoBytes
  /\ file = NoBytes
  /\ rec2 = NoBytes
  /\ hist = << >>
  /\ lastOp = Op("none", "", "")

Init == InitWith(RecordDecls)

InitCompile == InitWith(DeclLists)

\* the record the accessors act on: rec until it is written out, rec2 after
\* the read
Current == IF pc = "rec" THEN rec ELSE rec2

\* schema.loadSchema(schemaJson): an exception leaves main
LoadSchema ==
  /\ pc = "start"
  /\ LET r == loadSchema(schema, schemaJson)
     IN  /\ schema' = r.schema
         /\ pc' = IF r.err = "" THEN "loaded" ELSE "failed"
         /\ lastOp' = Op("loadSchema", r.name, r.err)
  /\ UNCHANGED <<schemaJson, rec, file, rec2, hist>>

\* DynamicRecord rec(schema)
NewRecord ==
  /\ pc = "loaded"
  /\ rec' = newBuffer(schema)
  /\ pc' = "rec"
  /\ lastOp' = Op("new", "", "")
  /\ UNCHANGED <<schemaJson, schema, file, rec2, hist>>

\* rec[name] = value; a 9-byte span is undefined behaviour, after which the
\* call returns with indeterminate bytes involved or the program crashes.
\* hist records the successful writes and is capped at MaxSets.
SetValueInt ==
  /\ pc = "rec"
  /\ Len(hist) < MaxSets
  /\ \E name \in LookupNames, value \in Values :
       \/ \E ub \in (IF writeOverflows(schema, name) THEN UBChoices ELSE {NoUB}) :
            LET r == setValueInt(schema, rec, name, value, ub)
            IN  /\ rec' = r.buf
                /\ hist' = IF r.err = ""
                           THEN Append(hist, [name |-> name, value |-> value])
                           ELSE hist
                /\ lastOp' = [Op("setValue", name, r.err) EXCEPT !.val = value]
                /\ pc' = pc
       \/ /\ writeOverflows(schema, name)
          /\ pc' = "crashed"
          /\ lastOp' = [Op("setValue", name, "") EXCEPT !.val = value]
          /\ UNCHANGED <<rec, hist>>
  /\ UNCHANGED <<schemaJson, schema, file, rec2>>

\* rec[name] = data
SetValueBlob ==
  /\ pc = "rec"
  /\ \E name \in LookupNames, data \in Blobs :
       LET r == setValueBlob(schema, rec, name, data)
       IN  /\ rec' = r.buf
           /\ lastOp' = [Op("setValueBlob", name, r.err) EXCEPT !.bytes = data]
  /\ UNCHANGED <<pc, schemaJson, schema, file, rec2, hist>>

\* rec.write(ofs)
Write ==
  /\ pc = "rec"
  /\ file' = write(rec)
  /\ pc' = "written"
  /\ lastOp' = Op("write", "", "")
  /\ UNCHANGED <<schemaJson, schema, rec, rec2, hist>>

\* DynamicRecord rec2(schema); rec2.read(ifs2), the stream holding the first
\* n bytes of what was written
Read ==
  /\ pc = "written"
  /\ \E n \in 0..Len(file) :
       LET input == SubSeq(file, 1, n)
           r     == read(newBuffer(schema), input)
       IN  /\ rec2' = r.buf
           /\ lastOp' = [Op("read", "", "") EXCEPT !.bytes = input,
                                                   !.failbit = r.failbit]
  /\ pc' = "read"
  /\ UNCHANGED <<schemaJson, schema, rec, file, hist>>

\* uint64_t(rec[name]); a 9-byte span is undefined behaviour, after which the
\* call returns readBits' 8-byte result or the program crashes
GetInteger ==
  /\ pc \in {"rec", "read"}
  /\ \E name \in LookupNames :
       \/ LET r == getInteger(schema, Current, name)
          IN  /\ lastOp' = [Op("getInteger", name, r.err) EXCEPT !.val = r.val]
              /\ pc' = pc
       \/ /\ readOverflows(schema, name)
          /\ pc' = "crashed"
          /\ lastOp' = Op("getInteger", name, "")
  /\ UNCHANGED <<schemaJson, schema, rec, file, rec2, hist>>

\* rec.getValue<uint64_t>(name)
GetValueInt ==
  /\ pc \in {"rec", "read"}
  /\ \E name \in LookupNames :
       \/ LET r == getValueInt(schema, Current, name)
          IN  /\ lastOp' = [Op("getValueInt", name, r.err) EXCEPT !.val = r.val]
              /\ pc' = pc
       \/ /\ readOverflows(schema, name)
          /\ pc' = "crashed"
          /\ lastOp' = Op("getValueInt", name, "")
  /\ UNCHANGED <<schemaJson, schema, rec, file, rec2, hist>>

\* std::vector<uint8_t>(rec[name])
GetValueBlob ==
  /\ pc \in {"rec", "read"}
  /\ \E name \in LookupNames :
       LET r == getValueBlob(schema, Current, name)
       IN  lastOp' = [Op("getValueBlob", name, r.err) EXCEPT !.bytes = r.bytes]
  /\ UNCHANGED <<pc, schemaJson, schema, rec, file, rec2, hist>>

Next ==
  \/ LoadSchema
  \/ NewRecord
  \/ SetValueInt
  \/ SetValueBlob
  \/ Write
  \/ Read
  \/ GetInteger
  \/ GetValueInt
  \/ GetValueBlob

Spec == Init /\ [][Next]_vars

\* schema compilation alone, over every declaration list
NextCompile == LoadSchema

SpecCompile == InitCompile /\ [][NextCompile]_vars

(* ------------------------------- claims -------------------------------- *)

\* bit p of the buffer, counted from bit 0 of byte 0
BitAt(buf, p) == (buf[(p \div 8) + 1] \div Pow2(p % 8)) % 2

\* v mod 2^w: the low w bits of v
Trunc(v, w) == Pack([i \in Bits |-> IF i < w THEN BitOf(v, i) ELSE 0])

\* v < 2^w
InRange(v, w) == \A i \in Bits : i >= w => BitOf(v, i) = 0

\* ceil(n / d), by its definition
CeilDiv(n, d) == CHOOSE m \in 0..n : m * d >= n /\ (m = 0 \/ (m - 1) * d < n)

RECURSIVE SumBitLength(_, _)
SumBitLength(fields, n) ==
  IF n = 0 THEN 0 ELSE SumBitLength(fields, n - 1) + fields[n].bitLength

InSpan(fd, p) == p >= fd.bitOffset /\ p < fd.bitOffset + fd.bitLength

AccessorOps == {"getInteger", "getValueInt", "getValueBlob", "setValue", "setValueBlob"}

\* C1: a successful set(i, v) leaves every buffer bit outside field i's span
\* unchanged, and get(j) returns the same value before and after for every
\* other field j.  Stated for the writes whose span fits the 8-byte chunk, so
\* that no undefined behaviour is involved (the 9-byte spans are C10's case).
C1_NonInterference ==
  [][ (pc = "rec" /\ pc' = "rec" /\ lastOp'.op = "setValue" /\ lastOp'.err = ""
       /\ hist' # hist /\ ~writeOverflows(schema, lastOp'.name))
      => LET i == schema.name2idx[lastOp'.name]
         IN  /\ \A p \in 0..(8 * Len(rec) - 1) :
                  ~InSpan(schema.fields[i], p) => BitAt(rec', p) = BitAt(rec, p)
             /\ \A j \in (1..Len(schema.fields)) \ {i} :
                  readBits(rec', schema.fields[j].bitOffset, schema.fields[j].bitLength)
                  = readBits(rec, schema.fields[j].bitOffset, schema.fields[j].bitLength)
    ]_vars

\* the writes made to field f of the schema
SetsOf(f) == {k \in 1..Len(hist) : schema.name2idx[hist[k].name] = f}

\* every field was set exactly once, to a value within its width
EachFieldSetOnce ==
  \A f \in 1..Len(schema.fields) :
    /\ Cardinality(SetsOf(f)) = 1
    /\ \A k \in SetsOf(f) : InRange(hist[k].value, schema.fields[f].bitLength)

\* no field of the schema has a span of 9 bytes
NoFieldOverflows ==
  \A f \in 1..Len(schema.fields) :
    ~SpanOverflows(schema.fields[f].bitOffset, schema.fields[f].bitLength)

\* C2: when every field was set once to a value within its width, the record
\* written out and a fresh record filled from all of those bytes, get(f) on the
\* second record returns the value set, for every field f.  Stated for the
\* schemas whose spans all fit the 8-byte chunk (the others are C10's case).
C2_RoundTrip ==
  (pc = "read" /\ lastOp.op = "read" /\ ~lastOp.failbit /\ EachFieldSetOnce
   /\ NoFieldOverflows)
  => \A f \in 1..Len(schema.fields) : \A k \in SetsOf(f) :
       LET r == getInteger(schema, rec2, schema.fields[f].name)
       IN  r.err = "" /\ r.val = hist[k].value

\* C3: a get(f) immediately after a successful set(f, v) returns v mod
\* 2^bitLength_f.
C3_MaskedReadBack ==
  [][ (pc = "rec" /\ lastOp.op = "setValue" /\ lastOp.err = ""
       /\ pc' = "rec" /\ lastOp'.op = "getInteger" /\ lastOp'.name = lastOp.name)
      => /\ lastOp'.err = ""
         /\ lastOp'.val = Trunc(lastOp.val, Field(schema, lastOp.name).bitLength)
    ]_vars

HasDuplicateName ==
  \E i, j \in 1..Len(schemaJson) : i # j /\ schemaJson[i].name = schemaJson[j].name

\* C4: after loadSchema succeeds on a fresh schema there is one field per
\* declaration, in order; field i's bitOffset is the sum of the bitLengths
\* before it, offset = bitOffset / 8, size = ceil(bitLength / 8), no two bit
\* spans overlap, totalBits is the sum of all bitLengths and totalSize =
\* ceil(totalBits / 8).
C4_Layout ==
  pc = "loaded" =>
    LET fs == schema.fields
    IN  /\ Len(fs) = Len(schemaJson)
        /\ \A i \in 1..Len(fs) :
             /\ fs[i].name = schemaJson[i].name
             /\ fs[i].bitOffset = SumBitLength(fs, i - 1)
             /\ fs[i].offset * 8 <= fs[i].bitOffset
             /\ fs[i].bitOffset < (fs[i].offset + 1) * 8
             /\ fs[i].size = CeilDiv(fs[i].bitLength, 8)
        /\ \A i, j \in 1..Len(fs) :
             i # j => \A p \in 0..(schema.totalBits - 1) :
                        ~(InSpan(fs[i], p) /\ InSpan(fs[j], p))
        /\ schema.totalBits = SumBitLength(fs, Len(fs))
        /\ schema.totalSize = CeilDiv(schema.totalBits, 8)

\* C4's case: a compiled schema with a field that starts inside a byte
C4_Witness ==
  /\ pc = "loaded"
  /\ ~HasDuplicateName
  /\ Len(schema.fields) >= 2
  /\ \E i \in 1..Len(schema.fields) :
       schema.fields[i].bitOffset % 8 # 0 /\ schema.fields[i].bitLength % 8 # 0

InvalidWidth(k) == schemaJson[k].bitLength \notin 1..64

\* C5: when some declared bitLength is outside 1..64, compilation fails with
\* an error naming such a field and the schema object holds no compiled field.
C5_InvalidBitWidth ==
  (pc # "start" /\ \E k \in 1..Len(schemaJson) : InvalidWidth(k))
  => /\ pc = "failed"
     /\ lastOp.err = "InvalidBitWidth"
     /\ \E k \in 1..Len(schemaJson) : InvalidWidth(k) /\ lastOp.name = schemaJson[k].name
     /\ schema.fields = << >>

\* C6: compiling a list in which two declarations carry the same name fails
\* (with DuplicateField when nothing else is wrong with the list); no schema
\* with a shadowed field is produced.
C6_DuplicateField ==
  (pc # "start" /\ HasDuplicateName)
  => /\ pc = "failed"
     /\ (\A k \in 1..Len(schemaJson) : ~InvalidWidth(k)) => lastOp.err = "DuplicateField"

\* C7: a read from an input holding fewer than totalSize bytes ends in a
\* TruncatedInput error.
C7_TruncatedInput ==
  (lastOp.op = "read" /\ Len(lastOp.bytes) < schema.totalSize)
  => lastOp.err = "TruncatedInput"

\* C8: an integer accessor on a BLOB field, and the blob accessor on a field
\* that is not a BLOB, fail with a type error.
C8_TypeMismatchOnGet ==
  (pc # "crashed" /\ Known(schema, lastOp.name))
  => /\ (lastOp.op \in {"getInteger", "getValueInt"}
         /\ Field(schema, lastOp.name).type = "BLOB")
        => lastOp.err = "TypeMismatch"
     /\ (lastOp.op = "getValueBlob" /\ Field(schema, lastOp.name).type # "BLOB")
        => lastOp.err = "TypeMismatch"

\* C9: a get or set that fails with FieldNotFound or TypeMismatch leaves every
\* byte of the records' buffers as it was before the call.
C9_FailedAccessKeepsBuffer ==
  [][ (lastOp'.op \in AccessorOps /\ lastOp'.err \in {"FieldNotFound", "TypeMismatch"})
      => (rec' = rec /\ rec2' = rec2) ]_vars

\* C9's case: a byte-sequence set on a field that is not a BLOB has been
\* refused on a record whose buffer holds data
C9_Witness ==
  /\ lastOp.op = "setValueBlob"
  /\ lastOp.err = "TypeMismatch"
  /\ lastOp.bytes # NoBytes
  /\ rec # newBuffer(schema)

\* C10: for every field of an accepted schema the byte range readBits and
\* writeBits copy has at most 8 bytes, (bitOffset mod 8) + bitLength <= 64,
\* and every shift amount of the clear-mask loop is below 64.  Stated for the
\* lists whose names are distinct and whose declared widths are all in 1..64.
C10_CarrierBound ==
  (pc = "loaded" /\ ~HasDuplicateName
   /\ \A k \in 1..Len(schemaJson) : ~InvalidWidth(k)) =>
    \A i \in 1..Len(schema.fields) :
      LET fd == schema.fields[i]
      IN  /\ SpanBytes(fd.bitOffset, fd.bitLength) <= 8
          /\ (fd.bitOffset % 8) + fd.bitLength <= 64
          /\ \A b \in Byte0(fd.bitOffset)..Byte1(fd.bitOffset, fd.bitLength) :
               (b - Byte0(fd.bitOffset)) * 8 < 64

====
